---- MODULE Spec2Model ----
(***************************************************************************)
(* tlox (src/tlox/src/index.ts): the scanner, the recursive-descent        *)
(* parser, the tree-walking interpreter and the driver (file mode and      *)
(* interactive mode) of the expression language.                           *)
(*                                                                         *)
(* Source text and JavaScript strings are TLA+ strings; a character is a   *)
(* string of length one.  Indices are 0-based as in the source: the        *)
(* character at index i of s is SubSeq(s, i + 1, i + 1).                   *)
(***************************************************************************)
EXTENDS Integers, Sequences, FiniteSets, TLC

VARIABLES
    pc,         \* position of the process: "main", "prompt" (waiting for a line),
                \* "scan", "parse", "interpret", "returned" (inside run()), "exited"
    mode,       \* "none" before main() has dispatched, then "file" or "prompt"
    source,     \* the argument of run(source)
    tokens,     \* run(): const tokens = scanner.scanTokens()
    current,    \* Parser.current once parse() has returned
    expr,       \* run(): const expr = parser.parse()
    evaluated,  \* outcome of Interpreter.evaluate(expr) inside interpret()
    hadError,   \* the module-level flag (line 602)
    stdout,     \* lines written with console.log by the invocation of main() or of the listener that runs
    stderr,     \* lines written with console.error by that invocation
    exitCode    \* <<>> while the process runs, then <<status>>

vars == <<pc, mode, source, tokens, current, expr, evaluated, hadError, stdout, stderr, exitCode>>

----------------------------------------------------------------------------
(* Bounds of the model. *)

\* longest source text of the driver specification, in fragments of Lexicon
MaxFrags == 3
\* longest source text of the scanner specification, in fragments of ScanLexicon
MaxScanFrags == 3
\* longest token sequence (without the EOF token) of the parser specification
MaxTokens == 5

----------------------------------------------------------------------------
(* JavaScript values.  Every value is a record of the same shape; t is the *)
(* result of typeof (with "null" for null).  A number is the rational n/d  *)
(* when k = "finite" (d > 0, lowest terms), or NaN, Infinity, -Infinity or *)
(* the negative zero as k says.  Arithmetic on the rationals is the        *)
(* arithmetic of doubles as long as the values are exactly representable,  *)
(* which holds for the integers and halves the specifications reach.       *)

JSValue(t, k, n, d, s, b) == [t |-> t, k |-> k, n |-> n, d |-> d, s |-> s, b |-> b]

Undefined == JSValue("undefined", "", 0, 1, "", FALSE)
Null == JSValue("null", "", 0, 1, "", FALSE)
Bool(b) == JSValue("boolean", "", 0, 1, "", b)
Str(s) == JSValue("string", "", 0, 1, s, FALSE)
NaN == JSValue("number", "NaN", 0, 1, "", FALSE)
PosInfinity == JSValue("number", "Infinity", 0, 1, "", FALSE)
NegInfinity == JSValue("number", "-Infinity", 0, 1, "", FALSE)
NegZero == JSValue("number", "-0", 0, 1, "", FALSE)

Abs(i) == IF i < 0 THEN -i ELSE i

RECURSIVE Gcd(_, _)
Gcd(a, b) == IF b = 0 THEN a ELSE Gcd(b, a % b)

\* the finite number n/d, d # 0, in lowest terms with a positive denominator
Num(n, d) ==
    LET g == Gcd(Abs(n), Abs(d))
        sgn == IF d < 0 THEN -1 ELSE 1
    IN  JSValue("number", "finite", sgn * (n \div g), Abs(d) \div g, "", FALSE)

IntV(n) == Num(n, 1)

IsNumber(v) == v.t = "number"
IsString(v) == v.t = "string"
IsFinite(v) == v.t = "number" /\ v.k = "finite"
IsZero(v) == v.t = "number" /\ (v.k = "-0" \/ (v.k = "finite" /\ v.n = 0))
\* -1, 0 or 1: the sign of a number that is not NaN (both zeros have sign 0)
Sign(v) ==
    CASE v.k = "Infinity" -> 1
      [] v.k = "-Infinity" -> -1
      [] v.k = "-0" -> 0
      [] v.k = "finite" -> IF v.n > 0 THEN 1 ELSE IF v.n < 0 THEN -1 ELSE 0
\* whether a zero or a non-zero number carries the minus sign
IsNegative(v) == v.k = "-0" \/ v.k = "-Infinity" \/ (v.k = "finite" /\ v.n < 0)

\* unary minus of a number (flips the sign, of zeros and infinities too)
NumNeg(v) ==
    CASE v.k = "NaN" -> NaN
      [] v.k = "Infinity" -> NegInfinity
      [] v.k = "-Infinity" -> PosInfinity
      [] v.k = "-0" -> IntV(0)
      [] v.k = "finite" -> IF v.n = 0 THEN NegZero ELSE Num(-v.n, v.d)

\* the rational of a finite number or of the negative zero
Numer(v) == IF v.k = "finite" THEN v.n ELSE 0
Denom(v) == IF v.k = "finite" THEN v.d ELSE 1

\* IEEE 754 addition
NumAdd(a, b) ==
    CASE a.k = "NaN" \/ b.k = "NaN" -> NaN
      [] a.k \in {"Infinity", "-Infinity"} ->
            IF b.k \in {"Infinity", "-Infinity"} /\ b.k # a.k THEN NaN ELSE a
      [] b.k \in {"Infinity", "-Infinity"} -> b
      [] OTHER ->
            LET n == Numer(a) * Denom(b) + Numer(b) * Denom(a)
            IN  IF n = 0 /\ a.k = "-0" /\ b.k = "-0" THEN NegZero
                ELSE Num(n, Denom(a) * Denom(b))

\* IEEE 754 subtraction: a - b is a + (-b)
NumSub(a, b) == NumAdd(a, NumNeg(b))

\* IEEE 754 division
NumDiv(a, b) ==
    LET negative == IsNegative(a) # IsNegative(b)
        infinite(v) == v.k \in {"Infinity", "-Infinity"}
    IN  CASE a.k = "NaN" \/ b.k = "NaN" -> NaN
          [] infinite(a) /\ infinite(b) -> NaN
          [] IsZero(a) /\ IsZero(b) -> NaN
          [] infinite(a) \/ IsZero(b) -> IF negative THEN NegInfinity ELSE PosInfinity
          [] infinite(b) \/ IsZero(a) -> IF negative THEN NegZero ELSE IntV(0)
          [] OTHER -> Num(a.n * b.d, a.d * b.n)

\* a < b on numbers; false when either is NaN
NumLess(a, b) ==
    CASE a.k = "NaN" \/ b.k = "NaN" -> FALSE
      [] a.k = "Infinity" \/ b.k = "-Infinity" -> FALSE
      [] a.k = "-Infinity" \/ b.k = "Infinity" -> TRUE
      [] OTHER -> Numer(a) * Denom(b) < Numer(b) * Denom(a)

\* a === b on numbers: NaN differs from itself, the two zeros are equal
NumEquals(a, b) ==
    CASE a.k = "NaN" \/ b.k = "NaN" -> FALSE
      [] IsZero(a) \/ IsZero(b) -> IsZero(a) /\ IsZero(b)
      [] OTHER -> a = b

----------------------------------------------------------------------------
(* Characters. *)

\* the printable ASCII characters in code order: AsciiLow from the space
\* (code 32) to the underscore (95), AsciiHigh from a (97) to the tilde (126)
AsciiLow ==
    " !\"#$%&'()*+,-./0123456789:;<=>?@ABCDEFGHIJKLMNOPQRSTUVWXYZ[\\]^_"
AsciiHigh == "abcdefghijklmnopqrstuvwxyz{|}~"

CharAt(s, i) == SubSeq(s, i + 1, i + 1)

IndexIn(s, c) == CHOOSE i \in 1..Len(s) : SubSeq(s, i, i) = c
Occurs(s, c) == \E i \in 1..Len(s) : SubSeq(s, i, i) = c

\* the UTF-16 code unit of a character of the modelled alphabet
CharCode(c) ==
    CASE c = "\t" -> 9
      [] c = "\n" -> 10
      [] c = "\r" -> 13
      [] Occurs(AsciiLow, c) -> 31 + IndexIn(AsciiLow, c)
      [] Occurs(AsciiHigh, c) -> 96 + IndexIn(AsciiHigh, c)

DigitChars == {"0", "1", "2", "3", "4", "5", "6", "7", "8", "9"}
DigitValue(c) == CharCode(c) - 48

\* a < b on strings: by code units, a proper prefix first
RECURSIVE StringLess(_, _)
StringLess(a, b) ==
    CASE b = "" -> FALSE
      [] a = "" -> TRUE
      [] Head(a) # Head(b) -> CharCode(Head(a)) < CharCode(Head(b))
      [] OTHER -> StringLess(Tail(a), Tail(b))

\* String.prototype.trim: white space and line terminators off both ends
WhiteSpace == {" ", "\t", "\n", "\r", "\f"}

RECURSIVE TrimStart(_)
TrimStart(s) == IF s # "" /\ Head(s) \in WhiteSpace THEN TrimStart(Tail(s)) ELSE s

RECURSIVE TrimEnd(_)
TrimEnd(s) ==
    IF s # "" /\ SubSeq(s, Len(s), Len(s)) \in WhiteSpace
    THEN TrimEnd(SubSeq(s, 1, Len(s) - 1))
    ELSE s

Trim(s) == TrimEnd(TrimStart(s))

----------------------------------------------------------------------------
(* Conversions between numbers and strings. *)

AllDigits(s) == \A i \in 1..Len(s) : SubSeq(s, i, i) \in DigitChars

\* the integer a string of digits denotes
RECURSIVE DigitsValue(_)
DigitsValue(s) ==
    IF s = "" THEN 0
    ELSE 10 * DigitsValue(SubSeq(s, 1, Len(s) - 1)) + DigitValue(SubSeq(s, Len(s), Len(s)))

RECURSIVE Pow10(_)
Pow10(k) == IF k = 0 THEN 1 ELSE 10 * Pow10(k - 1)

\* ToNumber of a string (also Number(text) of the scanner): white space is
\* trimmed, the empty string is 0, a signed decimal literal or Infinity is its
\* value, anything else is NaN.  Exponents and the 0x, 0o, 0b prefixes are not
\* modelled: no text of the specifications holds the letters they need.
StringToNumber(str) ==
    LET s == Trim(str)
        signed == s # "" /\ Head(s) \in {"+", "-"}
        minus == s # "" /\ Head(s) = "-"
        body == IF signed THEN Tail(s) ELSE s
        dots == {i \in 1..Len(body) : SubSeq(body, i, i) = "."}
        dot == IF dots = {} THEN Len(body) + 1 ELSE CHOOSE i \in dots : \A j \in dots : i <= j
        whole == SubSeq(body, 1, dot - 1)
        frac == SubSeq(body, dot + 1, Len(body))
        magnitude == Num(DigitsValue(whole \o frac), Pow10(Len(frac)))
    IN  CASE s = "" -> IntV(0)
          [] body = "Infinity" -> IF minus THEN NegInfinity ELSE PosInfinity
          [] /\ body # ""
             /\ Cardinality(dots) <= 1
             /\ AllDigits(whole) /\ AllDigits(frac)
             /\ whole \o frac # "" ->
                IF minus THEN NumNeg(magnitude) ELSE magnitude
          [] OTHER -> NaN

\* the least k with d dividing 10^k (d a divisor of a power of ten)
RECURSIVE DecimalPlaces(_, _)
DecimalPlaces(d, k) == IF Pow10(k) % d = 0 THEN k ELSE DecimalPlaces(d, k + 1)

RECURSIVE ZeroPad(_, _)
ZeroPad(s, width) == IF Len(s) >= width THEN s ELSE ZeroPad("0" \o s, width)

RECURSIVE OnlyTwosAndFives(_)
OnlyTwosAndFives(d) ==
    CASE d = 1 -> TRUE
      [] d % 2 = 0 -> OnlyTwosAndFives(d \div 2)
      [] d % 5 = 0 -> OnlyTwosAndFives(d \div 5)
      [] OTHER -> FALSE

\* Number::toString: integers and terminating decimals of at most six places.
\* A quotient with a non-terminating expansion prints a rounded 17-digit text,
\* which is outside the model (no case applies and TLC stops if one is reached).
NumberToString(v) ==
    CASE v.k = "NaN" -> "NaN"
      [] v.k = "Infinity" -> "Infinity"
      [] v.k = "-Infinity" -> "-Infinity"
      [] v.k = "-0" -> "0"
      [] v.k = "finite" /\ v.d = 1 -> ToString(v.n)
      [] v.k = "finite" /\ v.d > 1 /\ v.d <= 1000000 /\ OnlyTwosAndFives(v.d) ->
            LET k == DecimalPlaces(v.d, 1)
                m == Abs(v.n) * (Pow10(k) \div v.d)
            IN  (IF v.n < 0 THEN "-" ELSE "")
                    \o ToString(m \div Pow10(k)) \o "."
                    \o ZeroPad(ToString(m % Pow10(k)), k)

\* ToNumber
ToNumber(v) ==
    CASE v.t = "undefined" -> NaN
      [] v.t = "null" -> IntV(0)
      [] v.t = "boolean" -> IF v.b THEN IntV(1) ELSE IntV(0)
      [] v.t = "number" -> v
      [] v.t = "string" -> StringToNumber(v.s)

\* ToString
JSToString(v) ==
    CASE v.t = "undefined" -> "undefined"
      [] v.t = "null" -> "null"
      [] v.t = "boolean" -> IF v.b THEN "true" ELSE "false"
      [] v.t = "number" -> NumberToString(v)
      [] v.t = "string" -> v.s

\* the operators of JavaScript the interpreter applies to its operands
JSNegate(v) == NumNeg(ToNumber(v))
JSSubtract(l, r) == NumSub(ToNumber(l), ToNumber(r))
JSDivide(l, r) == NumDiv(ToNumber(l), ToNumber(r))
JSAdd(l, r) ==
    IF IsString(l) \/ IsString(r)
    THEN Str(JSToString(l) \o JSToString(r))
    ELSE NumAdd(ToNumber(l), ToNumber(r))
\* l < r: two strings compare by code units, anything else as numbers
JSLess(l, r) ==
    IF IsString(l) /\ IsString(r)
    THEN StringLess(l.s, r.s)
    ELSE NumLess(ToNumber(l), ToNumber(r))
\* l <= r is "not r < l" unless the comparison is undefined (a NaN operand)
JSLessEqual(l, r) ==
    IF IsString(l) /\ IsString(r)
    THEN ~StringLess(r.s, l.s)
    ELSE /\ ToNumber(l).k # "NaN" /\ ToNumber(r).k # "NaN"
         /\ ~NumLess(ToNumber(r), ToNumber(l))
\* l === r
JSStrictEquals(l, r) ==
    CASE l.t # r.t -> FALSE
      [] l.t = "number" -> NumEquals(l, r)
      [] OTHER -> l = r

\* JSON.stringify of a primitive; undefined stays undefined and console.log
\* prints it as the word
QuoteChar(c) ==
    CASE c = "\"" -> "\\\""
      [] c = "\\" -> "\\\\"
      [] c = "\n" -> "\\n"
      [] c = "\r" -> "\\r"
      [] c = "\t" -> "\\t"
      [] c = "\f" -> "\\f"
      [] OTHER -> c

RECURSIVE QuoteChars(_)
QuoteChars(s) == IF s = "" THEN "" ELSE QuoteChar(Head(s)) \o QuoteChars(Tail(s))

JSONStringify(v) ==
    CASE v.t = "undefined" -> "undefined"
      [] v.t = "null" -> "null"
      [] v.t = "boolean" -> IF v.b THEN "true" ELSE "false"
      [] v.t = "number" -> IF v.k \in {"finite", "-0"} THEN NumberToString(v) ELSE "null"
      [] v.t = "string" -> "\"" \o QuoteChars(v.s) \o "\""

----------------------------------------------------------------------------
(* Tokens. *)

TokenType ==
    { "LEFT_PAREN", "RIGHT_PAREN", "LEFT_BRACE", "RIGHT_BRACE", "COMMA", "DOT",
      "MINUS", "PLUS", "SEMICOLON", "SLASH", "STAR",
      "BANG", "BANG_EQUAL", "EQUAL", "EQUAL_EQUAL",
      "GREATER", "GREATER_EQUAL", "LESS", "LESS_EQUAL",
      "IDENTIFIER", "STRING", "NUMBER",
      "AND", "CLASS", "ELSE", "FALSE", "FUN", "FOR", "IF", "NIL", "OR",
      "PRINT", "RETURN", "SUPER", "THIS", "TRUE", "VAR", "WHILE",
      "EOF" }

Token(type, lexeme, literal, line) ==
    [type |-> type, lexeme |-> lexeme, literal |-> literal, line |-> line]

\* report(line, where, message): the line console.error writes
ReportLine(line, where, message) ==
    "[line " \o ToString(line) \o "] Error" \o where \o ": " \o message

\* error(line, message)
ErrorLine(line, message) == ReportLine(line, "", message)

----------------------------------------------------------------------------
(* Scanner. *)

\* the own properties of the object literal Scanner.KEYWORDS
KEYWORDS ==
    ("and" :> "AND") @@ ("class" :> "CLASS") @@ ("else" :> "ELSE") @@
    ("false" :> "FALSE") @@ ("for" :> "FOR") @@ ("fun" :> "FUN") @@
    ("if" :> "IF") @@ ("nil" :> "NIL") @@ ("or" :> "OR") @@
    ("print" :> "PRINT") @@ ("return" :> "RETURN") @@ ("super" :> "SUPER") @@
    ("this" :> "THIS") @@ ("true" :> "TRUE") @@ ("var" :> "VAR") @@
    ("while" :> "WHILE")

\* the properties an object literal inherits from Object.prototype; each is a
\* function, or for __proto__ the prototype object: all of them truthy
ObjectPrototypeProperties ==
    { "constructor", "hasOwnProperty", "isPrototypeOf", "propertyIsEnumerable",
      "toLocaleString", "toString", "valueOf", "__proto__",
      "__defineGetter__", "__defineSetter__", "__lookupGetter__", "__lookupSetter__" }

\* Scanner.KEYWORDS[text]: a property read, which walks the prototype chain.
\* An inherited member is named by its path; a miss is undefined.
KeywordsGet(text) ==
    CASE text \in DOMAIN KEYWORDS -> KEYWORDS[text]
      [] text \in ObjectPrototypeProperties -> "Object.prototype." \o text
      [] OTHER -> "undefined"

\* what peek() and peekNext() return at the end of the source: '\0'
NUL == "\\0"

IsDigit(c) == c \in DigitChars
IsAlpha(c) ==
    \/ Occurs("abcdefghijklmnopqrstuvwxyz", c)
    \/ Occurs("ABCDEFGHIJKLMNOPQRSTUVWXYZ", c)
    \/ c = "_"
IsAlphaNumeric(c) == IsAlpha(c) \/ IsDigit(c)

\* the fields of a Scanner, and the lines it has handed to error()
NewScanner == [tokens |-> <<>>, start |-> 0, current |-> 0, line |-> 1, errors |-> <<>>]

ScannerIsAtEnd(src, sc) == sc.current >= Len(src)
ScannerPeek(src, sc) == IF ScannerIsAtEnd(src, sc) THEN NUL ELSE CharAt(src, sc.current)
ScannerPeekNext(src, sc) ==
    IF sc.current + 1 >= Len(src) THEN NUL ELSE CharAt(src, sc.current + 1)
ScannerAdvance(sc) == [sc EXCEPT !.current = @ + 1]
\* match(expected): whether it consumes the next character
ScannerMatches(src, sc, expected) ==
    ~ScannerIsAtEnd(src, sc) /\ CharAt(src, sc.current) = expected

\* a scanner that reports the error and makes a token of the offending text
\* all the same: ScanTokensContract does not hold of it
ScannerErrorAddsToken(sc, message) ==
    [sc EXCEPT !.errors = Append(@, ErrorLine(sc.line, message)),
               !.tokens = Append(@, Token("IDENTIFIER", "#", Null, sc.line))]

\* error(this.line, message)
ScannerError(sc, message) == [sc EXCEPT !.errors = Append(@, ErrorLine(sc.line, message))]

AddToken(src, sc, type, literal) ==
    [sc EXCEPT !.tokens =
        Append(@, Token(type, SubSeq(src, sc.start + 1, sc.current), literal, sc.line))]

\* addToken(match('=') ? two : one)
AddOneOrTwo(src, sc, two, one) ==
    IF ScannerMatches(src, sc, "=")
    THEN AddToken(src, ScannerAdvance(sc), two, Null)
    ELSE AddToken(src, sc, one, Null)

\* while (peek() !== '\n' && !isAtEnd()) advance()
RECURSIVE SkipComment(_, _)
SkipComment(src, sc) ==
    IF ScannerPeek(src, sc) # "\n" /\ ~ScannerIsAtEnd(src, sc)
    THEN SkipComment(src, ScannerAdvance(sc))
    ELSE sc

\* the loop of string()
RECURSIVE StringBody(_, _)
StringBody(src, sc) ==
    IF ScannerPeek(src, sc) # "\"" /\ ~ScannerIsAtEnd(src, sc)
    THEN StringBody(src,
            ScannerAdvance(IF ScannerPeek(src, sc) = "\n"
                           THEN [sc EXCEPT !.line = @ + 1]
                           ELSE sc))
    ELSE sc

ScanString(src, sc0) ==
    LET sc == StringBody(src, sc0)
    IN  IF ScannerIsAtEnd(src, sc)
        THEN ScannerError(sc, "Unterminated string.")
        ELSE LET closed == ScannerAdvance(sc)
                 value == SubSeq(src, closed.start + 2, closed.current - 1)
             IN  AddToken(src, closed, "STRING", Str(value))

\* while (isDigit(peek())) advance()
RECURSIVE SkipDigits(_, _)
SkipDigits(src, sc) ==
    IF IsDigit(ScannerPeek(src, sc)) THEN SkipDigits(src, ScannerAdvance(sc)) ELSE sc

ScanNumber(src, sc0) ==
    LET whole == SkipDigits(src, sc0)
        sc == IF ScannerPeek(src, whole) = "." /\ IsDigit(ScannerPeekNext(src, whole))
              THEN SkipDigits(src, ScannerAdvance(whole))
              ELSE whole
    IN  AddToken(src, sc, "NUMBER", StringToNumber(SubSeq(src, sc.start + 1, sc.current)))

\* while (isAlphaNumeric(peek())) advance()
RECURSIVE SkipAlphaNumerics(_, _)
SkipAlphaNumerics(src, sc) ==
    IF IsAlphaNumeric(ScannerPeek(src, sc))
    THEN SkipAlphaNumerics(src, ScannerAdvance(sc))
    ELSE sc

\* identifier(): the looked-up value replaces IDENTIFIER whenever it is truthy
ScanIdentifier(src, sc0) ==
    LET sc == SkipAlphaNumerics(src, sc0)
        text == SubSeq(src, sc.start + 1, sc.current)
        found == KeywordsGet(text)
        type == IF found = "undefined" THEN "IDENTIFIER" ELSE found
    IN  AddToken(src, sc, type, Null)

ScanToken(src, sc0) ==
    LET c == CharAt(src, sc0.current)
        sc == ScannerAdvance(sc0)
    IN  CASE c = "(" -> AddToken(src, sc, "LEFT_PAREN", Null)
          [] c = ")" -> AddToken(src, sc, "RIGHT_PAREN", Null)
          [] c = "{" -> AddToken(src, sc, "LEFT_BRACE", Null)
          [] c = "}" -> AddToken(src, sc, "RIGHT_BRACE", Null)
          [] c = "," -> AddToken(src, sc, "COMMA", Null)
          [] c = "." -> AddToken(src, sc, "DOT", Null)
          [] c = "-" -> AddToken(src, sc, "MINUS", Null)
          [] c = "+" -> AddToken(src, sc, "PLUS", Null)
          [] c = ";" -> AddToken(src, sc, "SEMICOLON", Null)
          [] c = "*" -> AddToken(src, sc, "STAR", Null)
          [] c = "!" -> AddOneOrTwo(src, sc, "BANG_EQUAL", "BANG")
          [] c = "=" -> AddOneOrTwo(src, sc, "EQUAL_EQUAL", "EQUAL")
          [] c = "<" -> AddOneOrTwo(src, sc, "LESS_EQUAL", "LESS")
          [] c = ">" -> AddOneOrTwo(src, sc, "GREATER_EQUAL", "GREATER")
          [] c = "/" -> IF ScannerMatches(src, sc, "/")
                        THEN SkipComment(src, ScannerAdvance(sc))
                        ELSE AddToken(src, sc, "SLASH", Null)
          [] c \in {" ", "\r", "\t"} -> sc
          [] c = "\n" -> [sc EXCEPT !.line = @ + 1]
          [] c = "\"" -> ScanString(src, sc)
          [] OTHER -> IF IsDigit(c) THEN ScanNumber(src, sc)
                      ELSE IF IsAlpha(c) THEN ScanIdentifier(src, sc)
                      ELSE ScannerError(sc, "Unexpected character.")

\* scanTokens(): the loop, then the EOF token
RECURSIVE ScanLoop(_, _)
ScanLoop(src, sc) ==
    IF ~ScannerIsAtEnd(src, sc)
    THEN ScanLoop(src, ScanToken(src, [sc EXCEPT !.start = sc.current]))
    ELSE [sc EXCEPT !.tokens = Append(@, Token("EOF", "", Null, sc.line))]

ScanTokens(src) == ScanLoop(src, NewScanner)

----------------------------------------------------------------------------
(* Expressions. *)

Literal(value) == [node |-> "Literal", value |-> value]
Grouping(inner) == [node |-> "Grouping", expr |-> inner]
Unary(operator, right) == [node |-> "Unary", operator |-> operator, right |-> right]
Binary(left, operator, right) ==
    [node |-> "Binary", left |-> left, operator |-> operator, right |-> right]
\* what parse() returns from its catch clause
NullExpr == [node |-> "null"]

----------------------------------------------------------------------------
(* Parser.  A grammar method is an operator of the token array and the     *)
(* cursor it starts at; its result says whether it threw, and holds the    *)
(* expression it returned, the cursor it left and the lines it reported.   *)
(* A thrown result passes through every caller unchanged, as the exception *)
(* does until parse() catches it.                                          *)

Returned(e, cur) == [threw |-> FALSE, expr |-> e, current |-> cur, errors |-> <<>>]
\* a parser that unwinds without reporting: SyntaxErrorYieldsNothing does not
\* hold of it
ThrewUnreported(cur, line) ==
    [threw |-> TRUE, expr |-> NullExpr, current |-> cur, errors |-> <<>>]

\* throw this.error(token, message), where line is what error() reported
Threw(cur, line) == [threw |-> TRUE, expr |-> NullExpr, current |-> cur, errors |-> <<line>>]

ParserPeek(toks, cur) == toks[cur + 1]
ParserPrevious(toks, cur) == toks[cur]
ParserIsAtEnd(toks, cur) == ParserPeek(toks, cur).type = "EOF"
ParserCheck(toks, cur, type) ==
    IF ParserIsAtEnd(toks, cur) THEN FALSE ELSE ParserPeek(toks, cur).type = type
\* the cursor after advance()
ParserAdvance(toks, cur) == IF ~ParserIsAtEnd(toks, cur) THEN cur + 1 ELSE cur
\* match(...types): whether one of the types is the next token's (it then advances)
ParserMatch(toks, cur, types) == \E type \in types : ParserCheck(toks, cur, type)

\* error(token, message): the line it reports
ParserError(token, message) ==
    IF token.type = "EOF"
    THEN ReportLine(token.line, " at end", message)
    ELSE ReportLine(token.line, " at '" \o token.lexeme \o "''", message)

RECURSIVE Expression(_, _)
RECURSIVE Equality(_, _)
RECURSIVE EqualityLoop(_, _)
RECURSIVE Comparison(_, _)
RECURSIVE ComparisonLoop(_, _)
RECURSIVE Term(_, _)
RECURSIVE TermLoop(_, _)
RECURSIVE Factor(_, _)
RECURSIVE FactorLoop(_, _)
RECURSIVE UnaryRule(_, _)
RECURSIVE Primary(_, _)

\* the end of the grouping branch of primary(), once expression() has
\* returned or thrown: consume(RIGHT_PAREN, ...) and new Grouping(expr)
CloseGrouping(toks, inner) ==
    IF inner.threw THEN inner
    ELSE IF ParserCheck(toks, inner.current, "RIGHT_PAREN")
    THEN Returned(Grouping(inner.expr), ParserAdvance(toks, inner.current))
    ELSE Threw(inner.current,
               ParserError(ParserPeek(toks, inner.current), "Expect ')' after expression"))

Primary(toks, cur) ==
    CASE ParserMatch(toks, cur, {"FALSE"}) ->
            Returned(Literal(Bool(FALSE)), ParserAdvance(toks, cur))
      [] ParserMatch(toks, cur, {"TRUE"}) ->
            Returned(Literal(Bool(TRUE)), ParserAdvance(toks, cur))
      [] ParserMatch(toks, cur, {"NIL"}) ->
            Returned(Literal(Null), ParserAdvance(toks, cur))
      [] ParserMatch(toks, cur, {"NUMBER", "STRING"}) ->
            Returned(Literal(ParserPrevious(toks, ParserAdvance(toks, cur)).literal),
                     ParserAdvance(toks, cur))
      [] ParserMatch(toks, cur, {"LEFT_PAREN"}) ->
            CloseGrouping(toks, Expression(toks, ParserAdvance(toks, cur)))
      [] OTHER -> Threw(cur, ParserError(ParserPeek(toks, cur), "Expect expression"))

\* new Unary(operator, right), unless the operand threw
NewUnary(operator, right) ==
    IF right.threw THEN right ELSE Returned(Unary(operator, right.expr), right.current)

UnaryRule(toks, cur) ==
    IF ParserMatch(toks, cur, {"BANG", "MINUS"})
    THEN NewUnary(ParserPrevious(toks, ParserAdvance(toks, cur)),
                  UnaryRule(toks, ParserAdvance(toks, cur)))
    ELSE Primary(toks, cur)

\* a parser that folds the new operand to the left of the running result:
\* ParseFollowsGrammar does not hold of it
NewBinaryRightLeaning(acc, operator, right) ==
    IF right.threw THEN right
    ELSE Returned([node |-> "Binary", left |-> right.expr, operator |-> operator,
                   right |-> acc.expr], right.current)

\* expr = new Binary(expr, operator, right), unless the right operand threw
NewBinary(acc, operator, right) ==
    IF right.threw THEN right
    ELSE Returned(Binary(acc.expr, operator, right.expr), right.current)

\* factor(): acc is the first operand, then the result of the while loop so far
FactorLoop(toks, acc) ==
    IF ~acc.threw /\ ParserMatch(toks, acc.current, {"SLASH", "STAR"})
    THEN FactorLoop(toks,
            NewBinary(acc, ParserPrevious(toks, ParserAdvance(toks, acc.current)),
                      UnaryRule(toks, ParserAdvance(toks, acc.current))))
    ELSE acc

Factor(toks, cur) == FactorLoop(toks, UnaryRule(toks, cur))

\* term()
TermLoop(toks, acc) ==
    IF ~acc.threw /\ ParserMatch(toks, acc.current, {"MINUS", "PLUS"})
    THEN TermLoop(toks,
            NewBinary(acc, ParserPrevious(toks, ParserAdvance(toks, acc.current)),
                      Factor(toks, ParserAdvance(toks, acc.current))))
    ELSE acc

Term(toks, cur) == TermLoop(toks, Factor(toks, cur))

\* comparison()
ComparisonLoop(toks, acc) ==
    IF /\ ~acc.threw
       /\ ParserMatch(toks, acc.current, {"GREATER", "GREATER_EQUAL", "LESS", "LESS_EQUAL"})
    THEN ComparisonLoop(toks,
            NewBinary(acc, ParserPrevious(toks, ParserAdvance(toks, acc.current)),
                      Term(toks, ParserAdvance(toks, acc.current))))
    ELSE acc

Comparison(toks, cur) == ComparisonLoop(toks, Term(toks, cur))

\* equality()
EqualityLoop(toks, acc) ==
    IF ~acc.threw /\ ParserMatch(toks, acc.current, {"BANG_EQUAL", "EQUAL_EQUAL"})
    THEN EqualityLoop(toks,
            NewBinary(acc, ParserPrevious(toks, ParserAdvance(toks, acc.current)),
                      Comparison(toks, ParserAdvance(toks, acc.current))))
    ELSE acc

Equality(toks, cur) == EqualityLoop(toks, Comparison(toks, cur))

Expression(toks, cur) == Equality(toks, cur)

\* parse(): the expression, or null when a grammar method threw.  The result
\* keeps the cursor and the reported lines beside the value parse() returns.
Parse(toks) ==
    LET r == Expression(toks, 0)
    IN  IF r.threw THEN [r EXCEPT !.expr = NullExpr] ELSE r

----------------------------------------------------------------------------
(* Interpreter.  The outcome of evaluate() is a value or a thrown error.   *)

NotEvaluated == [done |-> FALSE, threw |-> FALSE, value |-> Undefined, error |-> "", message |-> ""]
Value(v) == [done |-> TRUE, threw |-> FALSE, value |-> v, error |-> "", message |-> ""]
Thrown(error, message) ==
    [done |-> TRUE, threw |-> TRUE, value |-> Undefined, error |-> error, message |-> message]

\* expr.accept(this) on the null that parse() returned
NullAccept == Thrown("TypeError", "Cannot read properties of null (reading 'accept')")
\* what the engine throws when the call stack is exhausted
StackOverflow == Thrown("RangeError", "Maximum call stack size exceeded")

IsTruthy(object) ==
    CASE object.t \in {"null", "undefined"} -> FALSE
      [] object.t = "boolean" -> object.b
      [] OTHER -> TRUE

\* the expression visitGroupingExpr hands to evaluate(): its own argument
GroupingEvaluates(e) == e

RECURSIVE Evaluate(_)

VisitLiteralExpr(e) == Value(e.value)

\* evaluate(x) dispatches on x through accept: called on the grouping itself
\* it re-enters visitGroupingExpr with the same node, without end, until the
\* call stack is exhausted
VisitGroupingExpr(e) ==
    IF GroupingEvaluates(e) = e THEN StackOverflow ELSE Evaluate(GroupingEvaluates(e))

VisitUnaryExpr(e) ==
    LET right == Evaluate(e.right)
    IN  CASE right.threw -> right
          [] e.operator.type = "MINUS" -> Value(JSNegate(right.value))
          [] e.operator.type = "BANG" -> Value(Bool(~IsTruthy(right.value)))
          [] OTHER -> Value(Undefined)

VisitBinaryExpr(e) ==
    LET left == Evaluate(e.left)
        right == Evaluate(e.right)
        l == left.value
        r == right.value
        op == e.operator.type
    IN  CASE left.threw -> left
          [] right.threw -> right
          [] op = "GREATER" -> Value(Bool(JSLess(r, l)))
          [] op = "GREATER_EQUAL" -> Value(Bool(JSLessEqual(r, l)))
          [] op = "LESS" -> Value(Bool(JSLess(l, r)))
          [] op = "LESS_EQUAL" -> Value(Bool(JSLessEqual(l, r)))
          [] op = "BANG_EQUAL" -> Value(Bool(~JSStrictEquals(l, r)))
          [] op = "EQUAL_EQUAL" -> Value(Bool(JSStrictEquals(l, r)))
          [] op = "MINUS" -> Value(JSSubtract(l, r))
          [] op = "SLASH" -> Value(JSDivide(l, r))
          [] op = "STAR" -> Value(JSAdd(l, r))
          [] op = "PLUS" -> Value(JSAdd(l, r))
          [] OTHER -> Value(Undefined)

\* evaluate(expr): expr.accept(this)
Evaluate(e) ==
    CASE e.node = "null" -> NullAccept
      [] e.node = "Literal" -> VisitLiteralExpr(e)
      [] e.node = "Grouping" -> VisitGroupingExpr(e)
      [] e.node = "Unary" -> VisitUnaryExpr(e)
      [] e.node = "Binary" -> VisitBinaryExpr(e)

----------------------------------------------------------------------------
(* Inputs. *)

\* fragments the source texts of the driver specification are built from
Lexicon == {"1", "-", "*", "!", "(", ")", "\"", "#", " "}

\* fragments the source texts of the scanner specification are built from
ScanLexicon ==
    { "1", ".", "+", "=", "!", "/", "<", "(", "\"", " ", "\n", "#",
      "a", "_", "or", "nil", "constructor" }

RECURSIVE Concat(_)
Concat(frags) == IF frags = <<>> THEN "" ELSE Head(frags) \o Concat(Tail(frags))

\* the texts of at most n fragments of lexicon
Texts(lexicon, n) == {Concat(f) : f \in UNION {[1..k -> lexicon] : k \in 0..n}}

\* the contents of the file, and the lines typed at the prompt
Sources == Texts(Lexicon, MaxFrags)

----------------------------------------------------------------------------
(* Driver. *)

Init ==
    /\ pc = "main"
    /\ mode = "none"
    /\ source = ""
    /\ tokens = <<>>
    /\ current = 0
    /\ expr = NullExpr
    /\ evaluated = NotEvaluated
    /\ hadError = FALSE
    /\ stdout = <<>>
    /\ stderr = <<>>
    /\ exitCode = <<>>

\* exit(code)
Exit(code) == pc' = "exited" /\ exitCode' = <<code>>

\* main() with argv.length > 3
MainUsage ==
    /\ pc = "main"
    /\ stderr' = Append(stderr, "Usage: tlox [script]")
    /\ Exit(64)
    /\ UNCHANGED <<mode, source, tokens, current, expr, evaluated, hadError, stdout>>

\* main() with argv.length = 3: runFile(path) up to its call of run(content)
MainRunFile ==
    /\ pc = "main"
    /\ mode' = "file"
    /\ \E content \in Sources : source' = content
    /\ pc' = "scan"
    /\ UNCHANGED <<tokens, current, expr, evaluated, hadError, stdout, stderr, exitCode>>

\* main() with argv.length = 3 and a path readFileSync cannot read: the
\* rejection of main() reaches the catch handler
MainRunFileUnreadable ==
    /\ pc = "main"
    /\ mode' = "file"
    /\ stderr' = Append(stderr, "ENOENT: no such file or directory")
    /\ Exit(-1)
    /\ UNCHANGED <<source, tokens, current, expr, evaluated, hadError, stdout>>

\* main() with no script: runPrompt() installs the line listener
MainRunPrompt ==
    /\ pc = "main"
    /\ mode' = "prompt"
    /\ pc' = "prompt"
    /\ UNCHANGED <<source, tokens, current, expr, evaluated, hadError, stdout, stderr, exitCode>>

\* the 'line' listener up to its call of run(line)
Line ==
    /\ pc = "prompt"
    /\ stdout' = Append(stdout, "line")
    /\ \E line \in Sources :
          /\ source' = line
          /\ IF Trim(line) = ""
             THEN Exit(0)
             ELSE pc' = "scan" /\ UNCHANGED exitCode
    /\ UNCHANGED <<mode, tokens, current, expr, evaluated, hadError, stderr>>

\* run(): new Scanner(source).scanTokens(); every error() of the scanner
\* writes its line and sets hadError
Scan ==
    /\ pc = "scan"
    /\ LET sc == ScanTokens(source)
       IN  /\ tokens' = sc.tokens
           /\ stderr' = stderr \o sc.errors
           /\ hadError' = (hadError \/ sc.errors # <<>>)
    /\ pc' = "parse"
    /\ UNCHANGED <<mode, source, current, expr, evaluated, stdout, exitCode>>

\* run(): new Parser(tokens).parse(); every error() of the parser writes its
\* line and sets hadError
ParseTokens ==
    /\ pc = "parse"
    /\ LET r == Parse(tokens)
       IN  /\ expr' = r.expr
           /\ current' = r.current
           /\ stderr' = stderr \o r.errors
           /\ hadError' = (hadError \/ r.errors # <<>>)
    /\ pc' = "interpret"
    /\ UNCHANGED <<mode, source, tokens, evaluated, stdout, exitCode>>

\* run(): interpreter.interpret(expr).  A value is printed.  An error leaves
\* run() and its caller: in file mode it rejects main(), whose catch handler
\* prints the message and calls exit(-1); in interactive mode it leaves the
\* listener uncaught and the runtime ends the process with status 1.
Interpret ==
    /\ pc = "interpret"
    /\ LET e == Evaluate(expr)
       IN  /\ evaluated' = e
           /\ IF e.threw
              THEN /\ stderr' = Append(stderr,
                            IF mode = "file" THEN e.message
                            ELSE "Uncaught " \o e.error \o ": " \o e.message)
                   /\ Exit(IF mode = "file" THEN -1 ELSE 1)
                   /\ UNCHANGED stdout
              ELSE /\ stdout' = Append(stdout, JSONStringify(e.value))
                   /\ pc' = "returned"
                   /\ UNCHANGED <<stderr, exitCode>>
    /\ UNCHANGED <<mode, source, tokens, current, expr, hadError>>

\* run() returns.  runFile() calls exit(65) when hadError is set; otherwise
\* main() resolves and the process ends with status 0.  The listener returns
\* to the event loop: the locals of the invocation and what it wrote are gone,
\* hadError stays as it is.
RunReturns ==
    /\ pc = "returned"
    /\ IF mode = "file"
       THEN /\ Exit(IF hadError THEN 65 ELSE 0)
            /\ UNCHANGED <<source, tokens, current, expr, evaluated, stdout, stderr>>
       ELSE /\ pc' = "prompt"
            /\ source' = ""
            /\ tokens' = <<>>
            /\ current' = 0
            /\ expr' = NullExpr
            /\ evaluated' = NotEvaluated
            /\ stdout' = <<>>
            /\ stderr' = <<>>
            /\ UNCHANGED exitCode
    /\ UNCHANGED <<mode, hadError>>

Next ==
    \/ MainUsage
    \/ MainRunFile
    \/ MainRunFileUnreadable
    \/ MainRunPrompt
    \/ Line
    \/ Scan
    \/ ParseTokens
    \/ Interpret
    \/ RunReturns

Spec == Init /\ [][Next]_vars

----------------------------------------------------------------------------
(* The scanner alone: scanTokens() applied to every text of ScanLexicon.   *)

ScanSources == Texts(ScanLexicon, MaxScanFrags)

InitScan ==
    /\ pc = "scan"
    /\ mode = "file"
    /\ source \in ScanSources
    /\ tokens = <<>>
    /\ current = 0
    /\ expr = NullExpr
    /\ evaluated = NotEvaluated
    /\ hadError = FALSE
    /\ stdout = <<>>
    /\ stderr = <<>>
    /\ exitCode = <<>>

NextScan == Scan

SpecScan == InitScan /\ [][NextScan]_vars

----------------------------------------------------------------------------
(* The parser alone: parse() applied to every token sequence of at most    *)
(* MaxTokens tokens of the kinds of ParseKinds, ended by the EOF token.    *)

ParseKinds ==
    { "NUMBER", "MINUS", "STAR", "BANG", "EQUAL_EQUAL", "LESS", "LEFT_PAREN", "RIGHT_PAREN" }

\* a token of the kind, as the scanner makes it
TokenOfKind(kind) ==
    CASE kind = "NUMBER" -> Token("NUMBER", "1", IntV(1), 1)
      [] kind = "MINUS" -> Token("MINUS", "-", Null, 1)
      [] kind = "STAR" -> Token("STAR", "*", Null, 1)
      [] kind = "BANG" -> Token("BANG", "!", Null, 1)
      [] kind = "EQUAL_EQUAL" -> Token("EQUAL_EQUAL", "==", Null, 1)
      [] kind = "LESS" -> Token("LESS", "<", Null, 1)
      [] kind = "LEFT_PAREN" -> Token("LEFT_PAREN", "(", Null, 1)
      [] kind = "RIGHT_PAREN" -> Token("RIGHT_PAREN", ")", Null, 1)

TokensOfKinds(kinds) ==
    [i \in 1..Len(kinds) + 1 |->
        IF i <= Len(kinds) THEN TokenOfKind(kinds[i]) ELSE Token("EOF", "", Null, 1)]

TokenSequences ==
    {TokensOfKinds(kinds) : kinds \in UNION {[1..k -> ParseKinds] : k \in 0..MaxTokens}}

InitParse ==
    /\ pc = "parse"
    /\ mode = "file"
    /\ source = ""
    /\ tokens \in TokenSequences
    /\ current = 0
    /\ expr = NullExpr
    /\ evaluated = NotEvaluated
    /\ hadError = FALSE
    /\ stdout = <<>>
    /\ stderr = <<>>
    /\ exitCode = <<>>

NextParse == ParseTokens

SpecParse == InitParse /\ [][NextParse]_vars

----------------------------------------------------------------------------
(* The interpreter alone: interpret() applied to every operator over       *)
(* operands that are literals, groupings of literals or negated literals.  *)

\* values a literal of the language can have
LiteralValues == {IntV(0), IntV(1), IntV(2), Str("a"), Bool(TRUE), Bool(FALSE), Null}

UnaryOperators == {Token("MINUS", "-", Null, 1), Token("BANG", "!", Null, 1)}

BinaryOperators ==
    { Token("GREATER", ">", Null, 1), Token("GREATER_EQUAL", ">=", Null, 1),
      Token("LESS", "<", Null, 1), Token("LESS_EQUAL", "<=", Null, 1),
      Token("BANG_EQUAL", "!=", Null, 1), Token("EQUAL_EQUAL", "==", Null, 1),
      Token("MINUS", "-", Null, 1), Token("SLASH", "/", Null, 1),
      Token("STAR", "*", Null, 1), Token("PLUS", "+", Null, 1) }

Literals == {Literal(v) : v \in LiteralValues}

Operands ==
    Literals
        \cup {Grouping(l) : l \in Literals}
        \cup {Unary(Token("MINUS", "-", Null, 1), l) : l \in Literals}

Expressions ==
    Operands
        \cup {Unary(op, e) : op \in UnaryOperators, e \in Operands}
        \cup {Binary(l, op, r) : l \in Operands, op \in BinaryOperators, r \in Operands}

InitEval ==
    /\ pc = "interpret"
    /\ mode = "file"
    /\ source = ""
    /\ tokens = <<>>
    /\ current = 0
    /\ expr \in Expressions
    /\ evaluated = NotEvaluated
    /\ hadError = FALSE
    /\ stdout = <<>>
    /\ stderr = <<>>
    /\ exitCode = <<>>

NextEval == Interpret \/ RunReturns

SpecEval == InitEval /\ [][NextEval]_vars

----------------------------------------------------------------------------
(* Properties of the driver (Spec).                                         *)

\* a line report() writes
IsDiagnostic(text) == Len(text) >= 6 /\ SubSeq(text, 1, 6) = "[line "

Diagnosed == \E i \in DOMAIN stderr : IsDiagnostic(stderr[i])

\* C1: in file mode, a run in which a lexical or syntax diagnostic was
\* reported ends with exit code 65.
DiagnosticExits65 ==
    (pc = "exited" /\ mode = "file" /\ Diagnosed) => exitCode = <<65>>

\* the diagnostics the parser writes for the token it stopped at
SyntaxDiagnostics(token) ==
    { ParserError(token, "Expect expression"),
      ParserError(token, "Expect ')' after expression") }

\* run() is past its call of parse()
Parsed == pc \in {"interpret", "returned", "exited"} /\ tokens # <<>>

\* a value was written to standard output: any line but the listener's 'line'
ValuePrinted == \E i \in DOMAIN stdout : stdout[i] # "line"

\* C6: when the parser misses a token it expects (no primary where one is
\* required, no ')' after the expression of a grouping), the diagnostic of
\* the token it stopped at is on the sink once parse() has returned, parse()
\* has returned null and not a partial tree, and the run of that input
\* writes no value to standard output.
SyntaxErrorYieldsNothing ==
    (Parsed /\ Parse(tokens).threw) =>
        /\ \E i \in DOMAIN stderr :
              stderr[i] \in SyntaxDiagnostics(tokens[Parse(tokens).current + 1])
        /\ hadError
        /\ expr = NullExpr
        /\ ~ValuePrinted

\* C6 witness: the file "(1-" has been run to its end: the parser stopped at
\* the end of the input, where it expected an operand
SyntaxErrorWitness ==
    /\ pc = "exited"
    /\ mode = "file"
    /\ source = "(1-"
    /\ Parse(tokens).threw
    /\ stderr[1] = "[line 1] Error at end: Expect expression"
    /\ expr = NullExpr

\* C8: in interactive mode, the processing of a line begins with the
\* had-error state clear, whatever the lines before it reported.
LineStartsClean ==
    (mode = "prompt" /\ pc = "scan") => ~hadError

----------------------------------------------------------------------------
(* Properties of the scanner (SpecScan).                                    *)

Scanned == pc = "parse"

RECURSIVE CountChar(_, _)
CountChar(text, c) ==
    IF text = "" THEN 0
    ELSE (IF SubSeq(text, 1, 1) = c THEN 1 ELSE 0) + CountChar(Tail(text), c)

RECURSIVE Without(_, _)
\* the text without the characters of the set
Without(text, chars) ==
    IF text = "" THEN ""
    ELSE (IF SubSeq(text, 1, 1) \in chars THEN "" ELSE SubSeq(text, 1, 1))
            \o Without(Tail(text), chars)

RECURSIVE Lexemes(_)
\* the lexemes of the tokens, one after the other
Lexemes(toks) == IF toks = <<>> THEN "" ELSE Head(toks).lexeme \o Lexemes(Tail(toks))

IsUnexpectedCharacter(text) ==
    \E l \in 1..(MaxScanFrags + 2) : text = ErrorLine(l, "Unexpected character.")
IsUnterminatedString(text) ==
    \E l \in 1..(MaxScanFrags + 2) : text = ErrorLine(l, "Unterminated string.")
\* how many tokens of the type there are
CountType(type) == Cardinality({i \in DOMAIN tokens : tokens[i].type = type})

\* how many "Unterminated string." lines were written
CountUnterminated == Cardinality({i \in DOMAIN stderr : IsUnterminatedString(stderr[i])})

\* neither a string nor a comment begins in the text
Plain(text) == CountChar(text, "\"") = 0 /\ CountChar(text, "/") = 0

\* no comment begins in the text
NoComment(text) == \A i \in 1..(Len(text) - 1) : SubSeq(text, i, i + 1) # "//"

\* C7: scanTokens() returns, for every source, a token sequence with exactly
\* one end-of-input token, at its end.  Every lexical error wrote its
\* diagnostic and added no token, and the text after it was scanned: outside
\* strings and comments there is one "Unexpected character." per offending
\* character and the lexemes are the source without the white space and the
\* offending characters; a string left open at the end of the source gives
\* one "Unterminated string." and no token, the strings closed before it
\* give one STRING token each.
ScanTokensContract ==
    Scanned =>
        /\ tokens # <<>>
        /\ tokens[Len(tokens)].type = "EOF"
        /\ CountType("EOF") = 1
        /\ hadError = (stderr # <<>>)
        /\ \A i \in DOMAIN stderr :
              IsUnexpectedCharacter(stderr[i]) \/ IsUnterminatedString(stderr[i])
        /\ Plain(source) =>
              /\ Len(stderr) = CountChar(source, "#")
              /\ Lexemes(tokens) = Without(source, {" ", "\r", "\t", "\n", "#"})
        /\ NoComment(source) =>
              /\ CountUnterminated = CountChar(source, "\"") % 2
              /\ CountType("STRING") = CountChar(source, "\"") \div 2

\* C7 witness: an offending character with a token after it, then a string
\* left open at the end of the source
ScanErrorWitness ==
    /\ Scanned
    /\ source = "#1\""
    /\ tokens = <<Token("NUMBER", "1", IntV(1), 1), Token("EOF", "", Null, 1)>>
    /\ stderr = <<ErrorLine(1, "Unexpected character."),
                  ErrorLine(1, "Unterminated string.")>>

\* a run of letters, digits and underscores that begins with a letter or an
\* underscore
IsWord(text) ==
    /\ text # ""
    /\ IsAlpha(CharAt(text, 0))
    /\ \A i \in 0..(Len(text) - 1) : IsAlphaNumeric(CharAt(text, i))

\* C9: the token of a word has the keyword kind when the word is one of the
\* 16 keywords and IDENTIFIER otherwise, and its kind is a member of the
\* token kind enumeration.
WordKinds ==
    Scanned =>
        \A i \in DOMAIN tokens :
            IsWord(tokens[i].lexeme) =>
                /\ tokens[i].type \in TokenType
                /\ tokens[i].type =
                      IF tokens[i].lexeme \in DOMAIN KEYWORDS
                      THEN KEYWORDS[tokens[i].lexeme]
                      ELSE "IDENTIFIER"

----------------------------------------------------------------------------
(* Properties of the parser (SpecParse).                                    *)

ParseReturned == pc = "interpret"

\* the kinds of the tokens before the end-of-input token
Kinds == [i \in 1..(Len(tokens) - 1) |-> tokens[i].type]

\* the binary operators of the grammar's levels, lowest precedence first:
\* equality, comparison, term, factor
LevelOperators ==
    << {"BANG_EQUAL", "EQUAL_EQUAL"},
       {"GREATER", "GREATER_EQUAL", "LESS", "LESS_EQUAL"},
       {"MINUS", "PLUS"},
       {"SLASH", "STAR"} >>

BinaryLevels == Len(LevelOperators)
UnaryLevel == BinaryLevels + 1
PrimaryLevel == BinaryLevels + 2

PrefixOperators == {"BANG", "MINUS"}
LiteralKinds == {"NUMBER", "STRING", "TRUE", "FALSE", "NIL"}

RECURSIVE Derives(_, _, _, _)
\* whether the rule of the level derives kinds[i..j], by the grammar
\*   level    := next (operator next)*        for the four binary levels
\*   unary    := ("!" | "-") unary | primary
\*   primary  := literal | "(" expression ")"
Derives(level, kinds, i, j) ==
    CASE level <= BinaryLevels ->
            \/ Derives(level + 1, kinds, i, j)
            \/ \E k \in (i + 1)..(j - 1) :
                  /\ kinds[k] \in LevelOperators[level]
                  /\ Derives(level, kinds, i, k - 1)
                  /\ Derives(level + 1, kinds, k + 1, j)
      [] level = UnaryLevel ->
            \/ i < j /\ kinds[i] \in PrefixOperators /\ Derives(UnaryLevel, kinds, i + 1, j)
            \/ Derives(PrimaryLevel, kinds, i, j)
      [] OTHER ->
            \/ i = j /\ kinds[i] \in LiteralKinds
            \/ /\ i + 1 < j
               /\ kinds[i] = "LEFT_PAREN"
               /\ kinds[j] = "RIGHT_PAREN"
               /\ Derives(1, kinds, i + 1, j - 1)

\* the grammar accepts the token sequence
Accepted == Kinds # <<>> /\ Derives(1, Kinds, 1, Len(Kinds))

\* the level of the rule that makes the node
LevelOf(e) ==
    CASE e.node = "Binary" ->
            CHOOSE level \in 1..BinaryLevels : e.operator.type \in LevelOperators[level]
      [] e.node = "Unary" -> UnaryLevel
      [] OTHER -> PrimaryLevel

IsBinaryOperator(type) == \E level \in 1..BinaryLevels : type \in LevelOperators[level]

RECURSIVE WellShaped(_)
\* the tree is one the grammar makes: a binary node has its own level or a
\* higher one to its left (it leans left) and only higher ones to its right,
\* a unary node has a unary node or a primary as its operand
WellShaped(e) ==
    CASE e.node = "Literal" -> TRUE
      [] e.node = "Grouping" -> WellShaped(e.expr)
      [] e.node = "Unary" ->
            /\ e.operator.type \in PrefixOperators
            /\ LevelOf(e.right) >= UnaryLevel
            /\ WellShaped(e.right)
      [] e.node = "Binary" ->
            /\ IsBinaryOperator(e.operator.type)
            /\ LevelOf(e.left) >= LevelOf(e)
            /\ LevelOf(e.right) > LevelOf(e)
            /\ WellShaped(e.left)
            /\ WellShaped(e.right)
      [] OTHER -> FALSE

LiteralKind(value) ==
    CASE value.t = "number" -> "NUMBER"
      [] value.t = "string" -> "STRING"
      [] value.t = "boolean" -> IF value.b THEN "TRUE" ELSE "FALSE"
      [] OTHER -> "NIL"

RECURSIVE Yield(_)
\* the kinds of the tokens the tree was made of, from left to right
Yield(e) ==
    CASE e.node = "Literal" -> <<LiteralKind(e.value)>>
      [] e.node = "Grouping" -> <<"LEFT_PAREN">> \o Yield(e.expr) \o <<"RIGHT_PAREN">>
      [] e.node = "Unary" -> <<e.operator.type>> \o Yield(e.right)
      [] e.node = "Binary" -> Yield(e.left) \o <<e.operator.type>> \o Yield(e.right)
      [] OTHER -> <<>>

\* C5: for a token sequence the grammar accepts, parse() reports nothing
\* and returns the tree of the grammar: made of all the tokens in their
\* order, with the operators nested by precedence (equality < comparison <
\* term < factor < unary < primary), every binary level leaning left and
\* the unary operators nesting to the right.
ParseFollowsGrammar ==
    (ParseReturned /\ Accepted) =>
        /\ stderr = <<>>
        /\ expr # NullExpr
        /\ tokens[current + 1].type = "EOF"
        /\ Yield(expr) = Kinds
        /\ WellShaped(expr)

\* C5 witness: 1 - 1 - 1 has become Binary(Binary(1, -, 1), -, 1)
LeftLeaningWitness ==
    /\ ParseReturned
    /\ Kinds = <<"NUMBER", "MINUS", "NUMBER", "MINUS", "NUMBER">>
    /\ Accepted
    /\ expr = Binary(Binary(Literal(IntV(1)), tokens[2], Literal(IntV(1))),
                     tokens[4], Literal(IntV(1)))

\* C10: when parse() returns an expression, the cursor of the parser is at
\* the end-of-input token: no token is left over after the expression.
ParseCoversInput ==
    (ParseReturned /\ expr # NullExpr) => tokens[current + 1].type = "EOF"

----------------------------------------------------------------------------
(* Properties of the interpreter (SpecEval).                                *)

Interpreted == evaluated.done

IsNumberLiteral(e) == e.node = "Literal" /\ IsNumber(e.value)
IsStringLiteral(e) == e.node = "Literal" /\ IsString(e.value)
\* a literal whose value is not a Number
IsOtherLiteral(e) == e.node = "Literal" /\ ~IsNumber(e.value)

NumberOperators == {"GREATER", "GREATER_EQUAL", "LESS", "LESS_EQUAL", "MINUS", "SLASH"}

\* an operator on literal operands of a type it does not take
WrongOperandType(e) ==
    \/ /\ e.node = "Unary"
       /\ e.operator.type = "MINUS"
       /\ IsOtherLiteral(e.right)
    \/ /\ e.node = "Binary"
       /\ e.operator.type \in NumberOperators
       /\ IsOtherLiteral(e.left) \/ IsOtherLiteral(e.right)
    \/ /\ e.node = "Binary"
       /\ e.operator.type = "PLUS"
       /\ e.left.node = "Literal"
       /\ e.right.node = "Literal"
       /\ ~(IsNumberLiteral(e.left) /\ IsNumberLiteral(e.right))
       /\ ~(IsStringLiteral(e.left) /\ IsStringLiteral(e.right))

\* C2: an operator applied to an operand of the wrong type fails with a
\* RuntimeError and yields no value.
WrongTypeFails ==
    (Interpreted /\ WrongOperandType(expr)) =>
        evaluated.threw /\ evaluated.error = "RuntimeError"

\* the arithmetic product of two finite numbers
Product(a, b) == Num(a.n * b.n, a.d * b.d)

\* C3: '*' on two Number operands yields their arithmetic product.
StarYieldsProduct ==
    ( /\ Interpreted
      /\ expr.node = "Binary"
      /\ expr.operator.type = "STAR"
      /\ IsNumberLiteral(expr.left)
      /\ IsNumberLiteral(expr.right) )
        => evaluated = Value(Product(expr.left.value, expr.right.value))

\* C4: evaluating Grouping(inner) returns, with the value of inner.
GroupingYieldsInner ==
    (Interpreted /\ expr.node = "Grouping") =>
        ~evaluated.threw /\ evaluated = Evaluate(expr.expr)

====
